---- MODULE Spec2Model ----
(***************************************************************************)
(* Model of capabilities/core.py: the capability invokers (Summarize,      *)
(* DocumentQA, Sql, Search, WebContent, Structured), their blocking        *)
(* (__call__) and cooperative (run_async) entry points, the retry loop     *)
(* with exponential backoff, and the aiohttp session scopes.               *)
(***************************************************************************)
EXTENDS Integers, Sequences, FiniteSets, TLC

\* ---------------------------------------------------------------- bounds
NumTexts == 2       \* distinct argument strings a caller may pass
NumBodies == 2      \* distinct response bodies the service may return
MaxCancels == 1     \* external cancellations delivered to one invocation
MaxDepth == 2       \* nesting depth of the schemas given to flatten_model
MaxList == 2        \* length of the lists in a raw response value

\* ------------------------------------------------------ program constants
patience == 8

Texts == 1..NumTexts
Bodies == 1..NumBodies
Tasks == {"t1", "t2"}
MainTasks == {"t1"}
Caps == {"Summarize", "DocumentQA", "Sql", "Search", "WebContent", "Structured"}
Modes == {"call", "run_async"}

RetryCapsAndWeb == {"Summarize", "DocumentQA", "WebContent"}

\* The classes whose entry points are a `while count < patience` loop.
RetryCaps == {"Summarize", "DocumentQA"}

VARIABLES inv, sessions, running, registry, calc

vars == <<inv, sessions, running, registry, calc>>

\* What an invocation step never touches: the registry table and the
\* argument/result of a pure helper under evaluation.
others == <<registry, calc>>

\* ------------------------------------------------------------- schemas
\* A schema type: tag is the Python type; args holds List's element type;
\* names/types are the __annotations__ of a pydantic model or dataclass.
Scalar(tag) == [tag |-> tag, args |-> <<>>, names |-> <<>>, types |-> <<>>]
ListOf(s) == [tag |-> "List", args |-> <<s>>, names |-> <<>>, types |-> <<>>]
Record(tag, names, types) == [tag |-> tag, args |-> <<>>, names |-> names, types |-> types]
NoSchema == Scalar("none")

PersonModel == Record("model", <<"name">>, <<Scalar("str")>>)
ProfileData == Record("dataclass", <<"name", "tags">>, <<Scalar("str"), ListOf(Scalar("str"))>>)
BlobModel == Record("model", <<"blob">>, <<Scalar("bytes")>>)
NestedBlobData == Record("dataclass", <<"items">>, <<ListOf(BlobModel)>>)
Schemas == {PersonModel, ProfileData, BlobModel, NestedBlobData}

FieldType(m, k) == m.types[CHOOSE i \in DOMAIN m.names : m.names[i] = k]
FieldNames(m) == {m.names[i] : i \in DOMAIN m.names}

RECURSIVE FlattenRaisesShallow(_)
FlattenRaisesShallow(m) ==
    IF m.tag = "List" THEN FALSE
    ELSE IF m.tag \in {"model", "dataclass"}
         THEN \E i \in DOMAIN m.types : FlattenRaisesShallow(m.types[i])
    ELSE m.tag \notin {"str", "bool", "float", "int"}

\* flatten_model raises `unsupported datatype` somewhere in its recursion.
RECURSIVE FlattenRaises(_)
FlattenRaises(m) ==
    IF m.tag = "List" THEN FlattenRaises(m.args[1])
    ELSE IF m.tag \in {"model", "dataclass"}
         THEN \E i \in DOMAIN m.types : FlattenRaises(m.types[i])
    ELSE m.tag \notin {"str", "bool", "float", "int"}

RECURSIVE flatten_modelBoolean(_)
flatten_modelBoolean(m) ==
    IF m.tag = "List" THEN <<flatten_modelBoolean(m.args[1])>>
    ELSE IF m.tag \in {"model", "dataclass"}
         THEN [k \in FieldNames(m) |-> flatten_modelBoolean(FieldType(m, k))]
    ELSE IF m.tag = "str" THEN "string"
    ELSE IF m.tag = "bool" THEN "boolean"
    ELSE IF m.tag = "float" THEN "float"
    ELSE "int"

\* flatten_model's return value when it does not raise.
RECURSIVE flatten_model(_)
flatten_model(m) ==
    IF m.tag = "List" THEN <<flatten_model(m.args[1])>>
    ELSE IF m.tag \in {"model", "dataclass"}
         THEN [k \in FieldNames(m) |-> flatten_model(FieldType(m, k))]
    ELSE IF m.tag = "str" THEN "string"
    ELSE IF m.tag = "bool" THEN "bool"
    ELSE IF m.tag = "float" THEN "float"
    ELSE "int"

\* A raw JSON value of the shape of schema m whose string leaves are b.
RECURSIVE RawValue(_, _)
RawValue(m, b) ==
    IF m.tag = "List" THEN <<RawValue(m.args[1], b)>>
    ELSE IF m.tag \in {"model", "dataclass"}
         THEN [k \in FieldNames(m) |-> RawValue(FieldType(m, k), b)]
    ELSE b

\* output_spec.parse_obj(result) / dacite.from_dict(output_spec, result)
RECURSIVE Coerce(_, _)
Coerce(m, raw) ==
    IF m.tag = "List" THEN [i \in DOMAIN raw |-> Coerce(m.args[1], raw[i])]
    ELSE IF m.tag \in {"model", "dataclass"}
         THEN [cls |-> m.tag,
               data |-> [k \in FieldNames(m) |-> Coerce(FieldType(m, k), raw[k])]]
    ELSE raw

\* dacite.from_dict builds a nested value only where the field type is a
\* dataclass or a collection; a dict left under a pydantic-model field fails
\* its type check (WrongTypeError). parse_obj builds every nested record.
RECURSIVE DaciteRaises(_, _)
DaciteRaises(m, raw) ==
    IF m.tag = "List" THEN \E i \in DOMAIN raw : DaciteRaises(m.args[1], raw[i])
    ELSE IF m.tag = "dataclass"
         THEN \E k \in FieldNames(m) : DaciteRaises(FieldType(m, k), raw[k])
    ELSE m.tag = "model"

\* parse_obj if isinstance(output_spec, ModelMetaclass) else dacite.from_dict
CoerceRaises(m, raw) == IF m.tag = "model" THEN FALSE ELSE DaciteRaises(m, raw)

\* ------------------------------------------------------------ arguments
NoArgs == [document |-> 0, query |-> 0, sql_schema |-> 0, sql_variant |-> 0,
           url |-> 0, instructions |-> 0,
           input_spec |-> NoSchema, output_spec |-> NoSchema, input |-> 0]

ArgsOf(cap, texts) ==
    CASE cap = "Summarize" -> {[NoArgs EXCEPT !.document = d] : d \in texts}
      [] cap = "DocumentQA" ->
           {[NoArgs EXCEPT !.document = d, !.query = q] : d \in texts, q \in texts}
      [] cap = "Sql" ->
           {[NoArgs EXCEPT !.query = q, !.sql_schema = s, !.sql_variant = v] :
              q \in texts, s \in texts, v \in texts}
      [] cap = "Search" -> {[NoArgs EXCEPT !.query = q] : q \in texts}
      [] cap = "WebContent" -> {[NoArgs EXCEPT !.url = u] : u \in texts}
      [] cap = "Structured" ->
           {[NoArgs EXCEPT !.instructions = i, !.input_spec = si,
                           !.output_spec = so, !.input = x] :
              i \in texts, si \in Schemas, so \in Schemas, x \in texts}

\* ------------------------------------------------------------- requests
Url(cap) ==
    CASE cap = "Summarize" -> "https://api.multi.dev/summarize"
      [] cap = "DocumentQA" -> "https://api.multi.dev/documentqa"
      [] cap = "Sql" -> "https://api.multi.dev/sql"
      [] cap = "Search" -> "https://api.multi.dev/search"
      [] cap = "Structured" -> "https://api.multi.dev/structured"
      [] cap = "WebContent" -> "https://chrome.browserless.io/content"

\* The JSON body each entry point posts; given = a session was passed in.
Payload(cap, mode, given, a) ==
    CASE cap = "Summarize" -> [document |-> a.document]
      [] cap = "DocumentQA" -> [document |-> a.document, query |-> a.query]
      [] cap = "Sql" ->
           IF mode = "run_async" /\ given
           THEN [query |-> a.query]
           ELSE [query |-> a.query, sql_schema |-> a.sql_schema,
                 sql_type |-> a.sql_variant]
      [] cap = "Search" -> [query |-> a.query]
      [] cap = "WebContent" -> [url |-> a.url]
      [] cap = "Structured" ->
           [input_spec |-> flatten_model(a.input_spec),
            output_spec |-> flatten_model(a.output_spec),
            instructions |-> a.instructions,
            input |-> RawValue(a.input_spec, a.input)]

Request(cap, mode, given, a) ==
    [url |-> Url(cap), payload |-> Payload(cap, mode, given, a)]

\* --------------------------------------------------------------- state
NoResp == [kind |-> "none", body |-> 0]
NoExc == [kind |-> "", name |-> ""]

IdleInv == [uri |-> "", ref |-> "",
            cap |-> "", mode |-> "", given |-> FALSE, args |-> NoArgs,
            pc |-> "idle", stack |-> <<>>, resp |-> NoResp, exc |-> NoExc,
            ret |-> <<>>, result |-> [kind |-> "none", err |-> NoExc, val |-> <<>>],
            attempts |-> 0, closedPosts |-> 0, fails |-> 0, cancels |-> 0,
            waits |-> <<>>, sent |-> <<>>, created |-> 0]

\* _CAPABILITIES: one invoker instance per identifier, built at import.
Registry ==
    [u \in {"multi/summarize", "multi/document_qa", "multi/sql", "multi/search",
            "multi/structured", "multi/web_content"} |->
        CASE u = "multi/summarize" -> "Summarize"
          [] u = "multi/document_qa" -> "DocumentQA"
          [] u = "multi/sql" -> "Sql"
          [] u = "multi/search" -> "Search"
          [] u = "multi/structured" -> "Structured"
          [] u = "multi/web_content" -> "WebContent"]

\* Identifiers a caller may ask for that the table does not hold.
UnknownUris == {"multi/Summarize", "multi/translate"}

NoCalc == [fn |-> "none", schema |-> NoSchema, raw |-> <<>>, out |-> <<>>,
           raised |-> FALSE]

InitProgram ==
    /\ inv = [t \in Tasks |-> IdleInv]
    /\ sessions = [s \in Tasks \cup {"shared"} |->
                     IF s = "shared" THEN "open" ELSE "absent"]
    /\ running = "free"
    /\ registry = Registry

Init ==
    /\ InitProgram
    /\ calc = NoCalc

Top(t) == inv[t].stack[Len(inv[t].stack)]
IsAsync(t) == inv[t].mode = "run_async"
IsRetry(t) == inv[t].cap \in RetryCaps

\* An async coroutine runs only when the event loop thread is free or its own.
CanRun(t) == IsAsync(t) => running \in {"free", t}
Hold(t) == IF IsAsync(t) THEN t ELSE running
Release(t) == IF IsAsync(t) THEN "free" ELSE running

RaisedPcUncaught(cap) == "propagating"

\* Where an exception raised inside the body of the current frame lands:
\* the bare `except:` of the retry loop, or the caller.
RaisedPc(cap) == IF cap \in RetryCaps THEN "caught" ELSE "propagating"

\* sleep_duration = 2.0**count
SleepDuration(count) == 2 ^ count

CloseSessionLeak(ss, sid) == ss

\* `async with ClientSession(...)`: __aexit__ closes the session it created.
CloseSession(ss, sid) == [s \in DOMAIN ss |-> IF s = sid THEN "closed" ELSE ss[s]]

\* What the entry point returns for a decoded response body b:
\* r.json() verbatim, the readability extract, or the coerced `output`.
\* For Structured, body 2 is a JSON document without an "output" key and any
\* other body b is {"output": <value of the declared shape with leaves b>}.
Decode(cap, mode, a, b) ==
    CASE cap = "WebContent" ->
           [ok |-> TRUE, err |-> "",
            val |-> <<[extract |-> IF mode = "call" THEN "content" ELSE "summary",
                       html |-> b]>>]
      [] cap = "Structured" ->
           IF b = 2
           THEN [ok |-> FALSE, err |-> "KeyError", val |-> <<>>]
           ELSE IF CoerceRaises(a.output_spec, RawValue(a.output_spec, b))
           THEN [ok |-> FALSE, err |-> "WrongTypeError", val |-> <<>>]
           ELSE [ok |-> TRUE, err |-> "",
                 val |-> <<Coerce(a.output_spec, RawValue(a.output_spec, b))>>]
      [] OTHER -> [ok |-> TRUE, err |-> "", val |-> <<b>>]

Set(t, r) == inv' = [inv EXCEPT ![t] = r]

\* ------------------------------------------------------------- actions
\* A caller invokes cap(*args) or cap.run_async(*args, session=...).
Begin(r, cap, mode, given, a) ==
    [r EXCEPT !.cap = cap, !.mode = mode, !.given = given, !.args = a,
              !.pc = IF cap = "Structured" THEN "build"
                     ELSE IF cap \in RetryCaps THEN "loop" ELSE "body",
              !.stack = <<[count |-> 0,
                           session |-> IF given THEN "shared" ELSE "none"]>>]

InvokeFrom(t, caps, texts) ==
    /\ inv[t].pc = "idle"
    /\ \E cap \in caps, mode \in Modes, given \in BOOLEAN :
         /\ given => mode = "run_async"
         /\ \E a \in ArgsOf(cap, texts) : Set(t, Begin(inv[t], cap, mode, given, a))
    /\ UNCHANGED <<sessions, running, others>>

Invoke(t) == InvokeFrom(t, Caps, Texts)

LookupFallback(reg, uri) == IF uri \in DOMAIN reg THEN reg[uri] ELSE "Search"

\* self._capability = _CAPABILITIES[self.uri], left None on KeyError.
Lookup(reg, uri) == IF uri \in DOMAIN reg THEN reg[uri] ELSE "None"

TouchDefault(reg, uri) == IF uri \in DOMAIN reg THEN reg ELSE reg @@ (uri :> "None")

\* The table after _CAPABILITIES[self.uri]: a plain dict read.
Touch(reg, uri) == reg

\* Capability(uri): __post_init__ looks the identifier up; a miss is
\* printed and swallowed. Resolving again makes a new reference.
Resolve(t) ==
    /\ inv[t].pc \in {"idle", "resolved"}
    /\ \E uri \in DOMAIN Registry \cup UnknownUris :
         /\ Set(t, [inv[t] EXCEPT !.uri = uri, !.ref = Lookup(registry, uri),
                                  !.pc = "resolved"])
         /\ registry' = Touch(registry, uri)
    /\ UNCHANGED <<sessions, running, calc>>

\* Capability.__call__ / Capability.run_async: self._capability(...) or
\* self._capability.run_async(...); with _capability None the call itself
\* raises TypeError and the attribute access raises AttributeError.
InvokeRef(t) ==
    /\ inv[t].pc = "resolved"
    /\ \E mode \in Modes, given \in BOOLEAN :
         /\ given => mode = "run_async"
         /\ IF inv[t].ref = "None"
            THEN /\ mode = "run_async" => running = "free"
                 /\ \E a \in ArgsOf("Summarize", Texts) :
                      Set(t, [inv[t] EXCEPT
                                !.mode = mode, !.given = given, !.args = a,
                                !.stack = <<[count |-> 0, session |-> "none"]>>,
                                !.exc = [kind |-> IF mode = "call" THEN "TypeError"
                                                  ELSE "AttributeError",
                                         name |-> ""],
                                !.pc = "propagating"])
                 /\ running' = IF mode = "run_async" THEN t ELSE running
            ELSE /\ \E a \in ArgsOf(inv[t].ref, Texts) :
                      Set(t, Begin(inv[t], inv[t].ref, mode, given, a))
                 /\ UNCHANGED running
    /\ UNCHANGED <<sessions, others>>

\* Structured: payload = dict(input_spec=flatten_model(input_spec), ...)
BuildPayload(t) ==
    /\ inv[t].pc = "build"
    /\ CanRun(t)
    /\ IF FlattenRaises(inv[t].args.input_spec) \/ FlattenRaises(inv[t].args.output_spec)
       THEN Set(t, [inv[t] EXCEPT !.pc = "propagating",
                                   !.exc = [kind |-> "unsupported", name |-> ""]])
       ELSE Set(t, [inv[t] EXCEPT !.pc = "body"])
    /\ running' = Hold(t)
    /\ UNCHANGED <<sessions, others>>

MayAttemptOffByOne(t) ==
    \/ inv[t].pc = "body"
    \/ inv[t].pc = "loop" /\ Top(t).count <= patience

\* The loop condition `count < patience` (always true outside a retry loop).
MayAttempt(t) ==
    \/ inv[t].pc = "body"
    \/ inv[t].pc = "loop" /\ Top(t).count < patience

\* if session is None: async with aiohttp.ClientSession(...) as session:
\* the name `session` of the frame is rebound to the new session.
OpenSessionNoRebind(t) ==
    /\ MayAttempt(t)
    /\ IsAsync(t)
    /\ CanRun(t)
    /\ Top(t).session = "none"
    /\ Set(t, [inv[t] EXCEPT
                 !.stack = <<Top(t), [count |-> 0, session |-> t]>>,
                 !.created = @ + 1])
    /\ sessions' = [sessions EXCEPT ![t] = "open"]
    /\ running' = Hold(t)
    /\ UNCHANGED others

OpenSession(t) ==
    /\ MayAttempt(t)
    /\ IsAsync(t)
    /\ CanRun(t)
    /\ Top(t).session = "none"
    /\ Set(t, [inv[t] EXCEPT
                 !.stack = <<[Top(t) EXCEPT !.session = t],
                             [count |-> 0, session |-> t]>>,
                 !.created = @ + 1])
    /\ sessions' = [sessions EXCEPT ![t] = "open"]
    /\ running' = Hold(t)
    /\ UNCHANGED others

\* requests.post(...) / session.post(...): a closed session refuses the
\* request with RuntimeError before anything reaches the network.
Post(t) ==
    /\ MayAttempt(t)
    /\ CanRun(t)
    /\ IsAsync(t) => Top(t).session # "none"
    /\ IF IsAsync(t) /\ sessions[Top(t).session] = "closed"
       THEN /\ Set(t, [inv[t] EXCEPT
                         !.attempts = @ + 1, !.closedPosts = @ + 1,
                         !.exc = [kind |-> "session_closed", name |-> ""],
                         !.pc = RaisedPc(inv[t].cap)])
            /\ running' = Hold(t)
       ELSE /\ Set(t, [inv[t] EXCEPT
                         !.attempts = @ + 1,
                         !.sent = <<Request(inv[t].cap, inv[t].mode,
                                            inv[t].given, inv[t].args)>>,
                         !.resp = [kind |-> "pending", body |-> 0],
                         !.pc = "awaiting"])
            /\ running' = Release(t)
    /\ UNCHANGED <<sessions, others>>

Outcomes ==
    {[kind |-> "neterr", body |-> 0], [kind |-> "badjson", body |-> 0]}
      \cup {[kind |-> "ok", body |-> b] : b \in Bodies}

CompleteWithRetryOnSuccess(t, o) ==
    IF o.kind # "ok"
    THEN [inv[t] EXCEPT !.resp = o, !.fails = @ + 1,
                        !.exc = [kind |-> o.kind, name |-> ""],
                        !.pc = RaisedPc(inv[t].cap)]
    ELSE [inv[t] EXCEPT !.resp = o, !.pc = RaisedPc(inv[t].cap)]

\* The round trip ends: post raised, resp.json() raised, or a body decoded.
CompleteWith(t, o) ==
    LET d == Decode(inv[t].cap, inv[t].mode, inv[t].args, o.body) IN
    IF o.kind # "ok"
    THEN [inv[t] EXCEPT !.resp = o, !.fails = @ + 1,
                        !.exc = [kind |-> o.kind, name |-> ""],
                        !.pc = RaisedPc(inv[t].cap)]
    ELSE IF d.ok
    THEN [inv[t] EXCEPT !.resp = o, !.ret = d.val, !.pc = "returning"]
    ELSE [inv[t] EXCEPT !.resp = o, !.exc = [kind |-> d.err, name |-> ""],
                        !.pc = "propagating"]

Complete(t) ==
    /\ inv[t].pc = "awaiting"
    /\ CanRun(t)
    /\ \E o \in Outcomes : Set(t, CompleteWith(t, o))
    /\ running' = Hold(t)
    /\ UNCHANGED <<sessions, others>>

\* task.cancel(): CancelledError is thrown into the coroutine at its await.
Cancel(t) ==
    /\ inv[t].pc = "awaiting"
    /\ IsAsync(t)
    /\ CanRun(t)
    /\ inv[t].cancels < MaxCancels
    /\ Set(t, [inv[t] EXCEPT !.cancels = @ + 1,
                             !.resp = [kind |-> "cancelled", body |-> 0],
                             !.exc = [kind |-> "cancelled", name |-> ""],
                             !.pc = RaisedPc(inv[t].cap)])
    /\ running' = Hold(t)
    /\ UNCHANGED <<sessions, others>>

\* except: sleep_duration = 2.0**count; count += 1; time.sleep(sleep_duration)
\* time.sleep keeps the calling thread, in run_async the event loop thread.
Except(t) ==
    /\ inv[t].pc = "caught"
    /\ Set(t, [inv[t] EXCEPT
                 !.waits = Append(@, SleepDuration(Top(t).count)),
                 !.stack[Len(inv[t].stack)].count = @ + 1,
                 !.exc = NoExc,
                 !.pc = "backoff"])
    /\ running' = Hold(t)
    /\ UNCHANGED <<sessions, others>>

\* time.sleep returns; control goes back to the loop condition.
Wake(t) ==
    /\ inv[t].pc = "backoff"
    /\ Set(t, [inv[t] EXCEPT !.pc = "loop"])
    /\ UNCHANGED <<sessions, running, others>>

\* raise Exception("[<cap>] failed after hitting max retries")
Exhaust(t) ==
    /\ inv[t].pc = "loop"
    /\ Top(t).count >= patience
    /\ Set(t, [inv[t] EXCEPT !.exc = [kind |-> "exhausted", name |-> inv[t].cap],
                             !.pc = "propagating"])
    /\ UNCHANGED <<sessions, running, others>>

\* A return or an exception leaves the `async with ClientSession` block:
\* the session is closed, and an exception lands in the enclosing frame.
ExitSession(t) ==
    /\ inv[t].pc \in {"returning", "propagating"}
    /\ Len(inv[t].stack) = 2
    /\ Set(t, [inv[t] EXCEPT
                 !.stack = SubSeq(@, 1, 1),
                 !.pc = IF @ = "propagating" THEN RaisedPc(inv[t].cap) ELSE @])
    /\ sessions' = CloseSession(sessions, Top(t).session)
    /\ UNCHANGED <<running, others>>

\* The outermost frame returns or raises to the caller.
Finish(t) ==
    /\ inv[t].pc \in {"returning", "propagating"}
    /\ Len(inv[t].stack) = 1
    /\ Set(t, [inv[t] EXCEPT
                 !.stack = <<>>,
                 !.pc = "done",
                 !.result = IF inv[t].pc = "returning"
                            THEN [kind |-> "value", err |-> NoExc, val |-> inv[t].ret]
                            ELSE [kind |-> "error", err |-> inv[t].exc, val |-> <<>>]])
    /\ running' = Release(t)
    /\ UNCHANGED <<sessions, others>>

Next ==
    \/ \E t \in MainTasks : Invoke(t)
    \/ \E t \in MainTasks : Resolve(t)
    \/ \E t \in MainTasks : InvokeRef(t)
    \/ \E t \in MainTasks : BuildPayload(t)
    \/ \E t \in MainTasks : OpenSession(t)
    \/ \E t \in MainTasks : Post(t)
    \/ \E t \in MainTasks : Complete(t)
    \/ \E t \in MainTasks : Cancel(t)
    \/ \E t \in MainTasks : Except(t)
    \/ \E t \in MainTasks : Wake(t)
    \/ \E t \in MainTasks : Exhaust(t)
    \/ \E t \in MainTasks : ExitSession(t)
    \/ \E t \in MainTasks : Finish(t)

Spec == Init /\ [][Next]_vars

\* The steps of an invocation under way: every transport round trip ends and
\* every sleep returns; invoking, resolving and cancelling stay the caller's
\* choice.
Progress ==
    \E t \in MainTasks :
        \/ BuildPayload(t) \/ OpenSession(t) \/ Post(t) \/ Complete(t)
        \/ Except(t) \/ Wake(t) \/ Exhaust(t) \/ ExitSession(t) \/ Finish(t)

SpecLive == Init /\ [][Next]_vars /\ WF_vars(Progress)

\* Two invocations of the retrying capabilities sharing one event loop.
InvokePair(t) == InvokeFrom(t, RetryCaps, {1})

NextPair ==
    \/ \E t \in Tasks : InvokePair(t)
    \/ \E t \in Tasks : OpenSession(t)
    \/ \E t \in Tasks : Post(t)
    \/ \E t \in Tasks : Complete(t)
    \/ \E t \in Tasks : Except(t)
    \/ \E t \in Tasks : Wake(t)
    \/ \E t \in Tasks : Exhaust(t)
    \/ \E t \in Tasks : ExitSession(t)
    \/ \E t \in Tasks : Finish(t)

SpecPair == Init /\ [][NextPair]_vars

\* ============================================================== claims
RECURSIVE SumSeq(_)
SumSeq(q) == IF q = <<>> THEN 0 ELSE q[1] + SumSeq(Tail(q))

Done(t) == inv[t].pc = "done"
Failed(t, kind) == Done(t) /\ inv[t].result.kind = "error" /\ inv[t].result.err.kind = kind
NoSession(t) == IsAsync(t) /\ ~inv[t].given

\* The event loop thread is held exactly by a coroutine that is between two
\* suspension points.
LoopHeldByRunner ==
    \A t \in Tasks :
        (IsAsync(t) /\ inv[t].pc \in {"caught", "backoff", "returning", "propagating"})
            => running = t

\* C1: a Summarize/DocumentQA invocation whose attempts all fail makes
\* exactly 8 attempts, never more, and ends with the retries-exhausted
\* failure naming the capability, in every entry point.
C1_ExactlyEightAttempts ==
    \A t \in Tasks :
        (IsRetry(t) /\ inv[t].cancels = 0 /\ inv[t].resp.kind # "ok") =>
            /\ inv[t].attempts <= patience
            /\ Done(t) =>
                 /\ inv[t].attempts = patience
                 /\ inv[t].result.err = [kind |-> "exhausted", name |-> inv[t].cap]

\* C2: the k-th failed attempt (0-indexed) of a Summarize/DocumentQA
\* invocation is followed by a wait of 2^k, and an invocation whose
\* attempts all fail has waited 255 units in total.
C2_BackoffPowersOfTwo ==
    \A t \in Tasks :
        (IsRetry(t) /\ inv[t].cancels = 0) =>
            /\ \A i \in DOMAIN inv[t].waits : inv[t].waits[i] = 2 ^ (i - 1)
            /\ Failed(t, "exhausted") => SumSeq(inv[t].waits) = 255

\* C3: once an attempt of a Summarize/DocumentQA invocation succeeds, the
\* invocation only returns: the attempts made are the failed (or cancelled)
\* ones plus the winning one, all of them reached the network, each failure
\* was followed by one wait and the success by none, and the value returned
\* is the body of the winning response.
C3_FirstSuccessWins ==
    \A t \in Tasks :
        (IsRetry(t) /\ inv[t].resp.kind = "ok") =>
            /\ inv[t].pc \in {"returning", "done"}
            /\ inv[t].attempts = inv[t].fails + inv[t].cancels + 1
            /\ inv[t].closedPosts = 0
            /\ Len(inv[t].waits) = inv[t].attempts - 1
            /\ Done(t) => /\ inv[t].result.kind = "value"
                          /\ inv[t].result.val = <<inv[t].resp.body>>

\* A run_async call without a session whose attempt of index 3 won.
C3_Witness ==
    \E t \in Tasks :
        /\ IsRetry(t) /\ NoSession(t) /\ Done(t)
        /\ inv[t].cancels = 0
        /\ inv[t].fails = 3 /\ inv[t].attempts = 4
        /\ inv[t].result.kind = "value"

\* C4: run_async never closes the session its caller supplied, and the
\* session it created itself is closed when the invocation has returned or
\* raised.
C4_SessionOwnership ==
    /\ sessions["shared"] = "open"
    /\ \A t \in Tasks :
         /\ inv[t].given => inv[t].created = 0
         /\ (Done(t) /\ NoSession(t) /\ inv[t].created > 0) => sessions[t] = "closed"

\* A run_async call without a session that ended with retries exhausted.
C4_Witness ==
    \E t \in Tasks :
        /\ NoSession(t) /\ Failed(t, "exhausted")
        /\ inv[t].created = 1 /\ sessions[t] = "closed"

\* Another coroutine's next step on the event loop.
PeerStep(u) == OpenSession(u) \/ Post(u) \/ Complete(u)

\* C5: while one run_async invocation is in a backoff wait, another
\* run_async invocation that is ready to start an attempt or to receive its
\* response can take that step.
C5_BackoffYields ==
    \A t, u \in Tasks :
        (/\ t # u
         /\ IsAsync(t) /\ IsRetry(t) /\ inv[t].pc = "backoff"
         /\ IsAsync(u) /\ inv[u].pc \in {"loop", "awaiting"})
            => (running # t /\ ENABLED PeerStep(u))

\* C6: after a cancellation has been delivered to a run_async invocation it
\* makes no attempt and no backoff wait any more, and it ends by raising the
\* cancellation with its own session closed.
C6_CancellationStops ==
    [][\A t \in Tasks :
         inv[t].cancels > 0 =>
            /\ inv'[t].attempts = inv[t].attempts
            /\ inv'[t].waits = inv[t].waits
            /\ inv'[t].pc = "done" =>
                 /\ inv'[t].result.err.kind = "cancelled"
                 /\ sessions'[t] # "open"]_vars

\* C7: in every capability but WebContent each failed transport attempt is
\* followed by a backoff wait, and an invocation gives up only after 8
\* attempts.
C7_AllCapabilitiesRetry ==
    \A t \in Tasks :
        (Done(t) /\ inv[t].cap # "WebContent" /\ inv[t].cancels = 0) =>
            /\ Len(inv[t].waits) >= inv[t].fails
            /\ (inv[t].fails > 0 /\ inv[t].result.kind = "error")
                  => inv[t].attempts >= patience

\* C8: in every capability but WebContent no invocation ends with the
\* error of a single transport attempt.
C8_TransportErrorsAbsorbed ==
    \A t \in Tasks :
        (Done(t) /\ inv[t].cap # "WebContent") =>
            inv[t].result.err.kind \notin {"neterr", "badjson"}

\* C9: every request an invocation sends is the request __call__ sends for
\* the same arguments, and a Sql request carries query, sql_schema and
\* sql_type.
C9_SamePayload ==
    \A t \in Tasks :
        inv[t].sent # <<>> =>
            /\ inv[t].sent[1] = Request(inv[t].cap, "call", FALSE, inv[t].args)
            /\ inv[t].cap = "Sql" =>
                 DOMAIN inv[t].sent[1].payload = {"query", "sql_schema", "sql_type"}

\* C10: two finished Summarize/DocumentQA invocations of the same capability
\* that saw the same transport outcomes made the same number of attempts,
\* the same waits and ended the same way, whatever their entry points.
C10_EntryPointsAgree ==
    \A t, u \in Tasks :
        (/\ Done(t) /\ Done(u)
         /\ inv[t].cap = inv[u].cap
         /\ inv[t].fails = inv[u].fails
         /\ inv[t].resp = inv[u].resp)
            => /\ inv[t].attempts = inv[u].attempts
               /\ inv[t].waits = inv[u].waits
               /\ inv[t].result = inv[u].result

\* C11: resolving an identifier the registry does not hold leaves a
\* reference with no invoker bound and raises nothing; an invocation through
\* that reference sends nothing and ends with the error of using the missing
\* invoker, never with a value.
C11_UnboundReferenceFails ==
    \A t \in Tasks :
        inv[t].uri \in UnknownUris =>
            /\ inv[t].ref = "None"
            /\ inv[t].pc \in {"resolved", "propagating", "done"}
            /\ inv[t].attempts = 0 /\ inv[t].sent = <<>>
            /\ Done(t) => /\ inv[t].result.kind = "error"
                          /\ inv[t].result.err.kind \in {"TypeError", "AttributeError"}

\* run_async through an unbound reference has failed.
C11_Witness ==
    \E t \in Tasks :
        /\ inv[t].uri \in UnknownUris /\ Done(t)
        /\ inv[t].result.err.kind = "AttributeError"

\* C18: the registry table stays the table built at import, and a reference
\* resolved from an identifier holds exactly the invoker the table has under
\* that very string, or none.
C18_RegistryFixed ==
    /\ registry = Registry
    /\ \A t \in Tasks :
         inv[t].uri # "" =>
            /\ inv[t].ref = (IF inv[t].uri \in DOMAIN Registry
                             THEN Registry[inv[t].uri] ELSE "None")
            /\ inv[t].cap \in {"", inv[t].ref}

\* An invocation resolved through the registry has returned a value.
C18_Witness ==
    \E t \in Tasks :
        /\ inv[t].uri = "multi/summarize" /\ inv[t].cap = "Summarize"
        /\ Done(t) /\ inv[t].result.kind = "value"

\* ------------------------------------------------------- flatten_model
\* The types of nesting depth at most d: scalars (bytes stands for a type
\* flatten_model does not know), List[T], and one-field models/dataclasses.
RECURSIVE TypesUpTo(_)
TypesUpTo(d) ==
    IF d = 0
    THEN {Scalar(g) : g \in {"str", "bool", "float", "int", "bytes"}}
    ELSE LET S == TypesUpTo(d - 1) IN
         S \cup {ListOf(x) : x \in S}
           \cup {Record(g, <<"a">>, <<x>>) : g \in {"model", "dataclass"}, x \in S}

\* class Example(BaseModel): name: str; age: int; tags: List[str]
ExampleSchema ==
    Record("model", <<"name", "age", "tags">>,
           <<Scalar("str"), Scalar("int"), ListOf(Scalar("str"))>>)

FlattenInputs ==
    TypesUpTo(MaxDepth)
      \cup {Record("model", <<"a", "b">>, <<x, y>>) :
              x \in TypesUpTo(MaxDepth - 1), y \in TypesUpTo(MaxDepth - 1)}
      \cup {ExampleSchema}

InitFlatten ==
    /\ InitProgram
    /\ \E m \in FlattenInputs : calc = [NoCalc EXCEPT !.fn = "flatten", !.schema = m]

\* flatten_model(m): returns the field-type map or raises.
Flatten ==
    /\ calc.fn = "flatten"
    /\ calc' = [calc EXCEPT
                  !.fn = "flattened",
                  !.raised = FlattenRaises(calc.schema),
                  !.out = IF FlattenRaises(calc.schema) THEN <<>>
                          ELSE <<flatten_model(calc.schema)>>]
    /\ UNCHANGED <<inv, sessions, running, registry>>

NextFlatten == Flatten

SpecFlatten == InitFlatten /\ [][NextFlatten]_vars

\* The schema is built from string, boolean, float, integer, records and
\* sequences only.
RECURSIVE SupportedRef(_)
SupportedRef(m) ==
    CASE m.tag \in {"str", "bool", "float", "int"} -> TRUE
      [] m.tag \in {"model", "dataclass"} ->
           \A i \in DOMAIN m.types : SupportedRef(m.types[i])
      [] m.tag = "List" -> SupportedRef(m.args[1])
      [] OTHER -> FALSE

\* The field-type map the specification defines for a supported schema.
RECURSIVE FlattenRef(_)
FlattenRef(m) ==
    CASE m.tag = "str" -> "string"
      [] m.tag = "bool" -> "bool"
      [] m.tag = "float" -> "float"
      [] m.tag = "int" -> "int"
      [] m.tag = "List" -> <<FlattenRef(m.args[1])>>
      [] OTHER -> [k \in {m.names[i] : i \in DOMAIN m.names} |->
                     FlattenRef(m.types[CHOOSE i \in DOMAIN m.names : m.names[i] = k])]

\* C12: for every schema built from the supported shapes, flatten_model
\* returns the field-type map of the reference definition: a record gives a
\* map from field name to flattened type, a sequence a one-element list,
\* and the scalars give "string", "bool", "float", "int".
C12_FlattenMatchesReference ==
    (calc.fn = "flattened" /\ SupportedRef(calc.schema)) =>
        /\ ~calc.raised
        /\ calc.out = <<FlattenRef(calc.schema)>>
        /\ calc.schema = ExampleSchema =>
             calc.out[1] = [name |-> "string", age |-> "int", tags |-> <<"string">>]

\* The example schema has been flattened.
C12_Witness ==
    /\ calc.fn = "flattened"
    /\ calc.schema = ExampleSchema
    /\ calc.out = <<[name |-> "string", age |-> "int", tags |-> <<"string">>]>>

\* ------------------------------------------------------------ coercion
\* A raw JSON value of the shape of schema m: lists have n elements and
\* every path holds a different leaf.
RECURSIVE RawOf(_, _, _)
RawOf(m, b, n) ==
    IF m.tag = "List" THEN [i \in 1..n |-> RawOf(m.args[1], b + i, n)]
    ELSE IF m.tag \in {"model", "dataclass"}
         THEN [k \in FieldNames(m) |->
                 RawOf(FieldType(m, k),
                       b + 10 * (CHOOSE i \in DOMAIN m.names : m.names[i] = k), n)]
    ELSE b

\* class Customer(BaseModel): address: Address; class Address(BaseModel): city: str
AddressSchema ==
    Record("model", <<"address">>, <<Record("model", <<"city">>, <<Scalar("str")>>)>>)

\* The output shapes: records whose fields are supported types.
CoerceShapes ==
    {Record(g, <<"a">>, <<x>>) :
        g \in {"model", "dataclass"},
        x \in {y \in TypesUpTo(MaxDepth) : ~FlattenRaises(y)}}
      \cup {AddressSchema}

InitCoerce ==
    /\ InitProgram
    /\ \E m \in CoerceShapes, b \in Bodies, n \in 1..MaxList :
         calc = [NoCalc EXCEPT !.fn = "coerce", !.schema = m, !.raw = <<RawOf(m, b, n)>>]

\* result = r.json()["output"]; output_spec.parse_obj(result) or
\* dacite.from_dict(output_spec, result)
CoerceStep ==
    /\ calc.fn = "coerce"
    /\ calc' = [calc EXCEPT
                  !.fn = "coerced",
                  !.raised = CoerceRaises(calc.schema, calc.raw[1]),
                  !.out = IF CoerceRaises(calc.schema, calc.raw[1]) THEN <<>>
                          ELSE <<Coerce(calc.schema, calc.raw[1])>>]
    /\ UNCHANGED <<inv, sessions, running, registry>>

NextCoerce == CoerceStep

SpecCoerce == InitCoerce /\ [][NextCoerce]_vars

\* The values a typed instance holds, path by path.
RECURSIVE Plain(_, _)
Plain(m, v) ==
    IF m.tag = "List" THEN [i \in DOMAIN v |-> Plain(m.args[1], v[i])]
    ELSE IF m.tag \in {"model", "dataclass"}
         THEN [k \in {m.names[i] : i \in DOMAIN m.names} |->
                 Plain(m.types[CHOOSE i \in DOMAIN m.names : m.names[i] = k], v.data[k])]
    ELSE v

\* C13: a raw value of the declared output shape is coerced into a typed
\* record that holds, at every field path, the raw value of that path, for
\* model-style and for plain structural shapes, nested records and
\* sequences of records included.
C13_CoercionRoundTrip ==
    calc.fn = "coerced" =>
        /\ ~calc.raised
        /\ Plain(calc.schema, calc.out[1]) = calc.raw[1]

\* C14: a Structured invocation whose input_spec or output_spec holds, at
\* any depth, a type outside string/boolean/float/integer/record/sequence
\* fails with the unsupported-type error before anything else happens: no
\* payload, no attempt, no wait, no session.
C14_UnsupportedFailsFast ==
    \A t \in Tasks :
        (/\ inv[t].cap = "Structured"
         /\ ~(SupportedRef(inv[t].args.input_spec) /\ SupportedRef(inv[t].args.output_spec)))
            => /\ inv[t].pc \in {"build", "propagating", "done"}
               /\ inv[t].attempts = 0 /\ inv[t].sent = <<>>
               /\ inv[t].waits = <<>> /\ inv[t].created = 0
               /\ Done(t) => /\ inv[t].result.kind = "error"
                             /\ inv[t].result.err.kind = "unsupported"

\* run_async without a session failed on a type nested in a list in a record.
C14_Witness ==
    \E t \in Tasks :
        /\ inv[t].cap = "Structured" /\ NoSession(t)
        /\ inv[t].args.input_spec = PersonModel
        /\ inv[t].args.output_spec = NestedBlobData
        /\ Failed(t, "unsupported")

\* C15: the attempt counter of every frame of a Summarize/DocumentQA
\* invocation is in 0..8, starts at 0, changes only by +1 and only in the
\* except clause after the loop body raised, where the wait started is 2^
\* (the value before the increment); an attempt starts only below 8.
C15_RetryState ==
    [][\A t \in Tasks :
         inv'[t].cap \in RetryCaps =>
            LET old == inv[t].stack
                new == inv'[t].stack IN
            /\ \A i \in DOMAIN new : new[i].count \in 0..patience
            /\ \A i \in DOMAIN new : i \notin DOMAIN old => new[i].count = 0
            /\ \A i \in DOMAIN new \cap DOMAIN old :
                 \/ new[i].count = old[i].count
                 \/ /\ new[i].count = old[i].count + 1
                    /\ i = Len(old)
                    /\ inv[t].pc = "caught" /\ inv[t].exc.kind # ""
                    /\ inv'[t].pc = "backoff"
                    /\ inv'[t].waits = Append(inv[t].waits, 2 ^ old[i].count)
            /\ inv'[t].waits # inv[t].waits =>
                 (inv[t].pc = "caught" /\ new[Len(new)].count = old[Len(old)].count + 1)
            /\ inv'[t].attempts # inv[t].attempts =>
                 /\ inv'[t].attempts = inv[t].attempts + 1
                 /\ old[Len(old)].count < patience]_vars

\* The eighth failure: the counter has reached 8 and the wait is 128.
C15_Witness ==
    \E t \in Tasks :
        /\ IsRetry(t) /\ inv[t].pc = "backoff"
        /\ Top(t).count = patience
        /\ inv[t].waits[Len(inv[t].waits)] = 128

\* C16: every started Summarize/DocumentQA invocation ends, and one that was
\* not cancelled ends either by returning the response of a successful
\* attempt or by raising the retries-exhausted failure.
C16_Terminates ==
    /\ \A t \in Tasks :
         (inv[t].cap \in RetryCaps /\ inv[t].pc # "done") ~> (inv[t].pc = "done")
    /\ [](\A t \in Tasks :
            (IsRetry(t) /\ Done(t) /\ inv[t].cancels = 0) =>
               \/ /\ inv[t].result.kind = "value"
                  /\ inv[t].resp.kind = "ok"
                  /\ inv[t].result.val = <<inv[t].resp.body>>
               \/ /\ inv[t].result.kind = "error"
                  /\ inv[t].result.err = [kind |-> "exhausted", name |-> inv[t].cap])

\* A blocking call has ended with retries exhausted.
C16_Witness ==
    \E t \in Tasks :
        /\ IsRetry(t) /\ inv[t].mode = "call" /\ inv[t].cancels = 0
        /\ Failed(t, "exhausted")

\* C17: a WebContent invocation makes exactly one network attempt and no
\* backoff wait, and the failure of that attempt is what the caller gets.
C17_WebContentNoRetry ==
    \A t \in Tasks :
        inv[t].cap = "WebContent" =>
            /\ inv[t].attempts <= 1
            /\ inv[t].closedPosts = 0
            /\ inv[t].waits = <<>>
            /\ Done(t) =>
                 /\ inv[t].attempts = 1
                 /\ inv[t].resp.kind \in {"neterr", "badjson"} =>
                      (inv[t].result.kind = "error"
                         /\ inv[t].result.err.kind = inv[t].resp.kind)
                 /\ inv[t].resp.kind = "ok" => inv[t].result.kind = "value"

\* run_async without a session ended with the network error of its attempt.
C17_Witness ==
    \E t \in Tasks :
        /\ inv[t].cap = "WebContent" /\ NoSession(t)
        /\ Failed(t, "neterr") /\ inv[t].attempts = 1

\* C19: in a run_async invocation of Summarize or DocumentQA made without a
\* caller-supplied session, no post is ever issued on the session the
\* invocation created once that session has been closed.
C19_NoUseAfterRelease ==
    \A t \in Tasks :
        (IsRetry(t) /\ NoSession(t)) => inv[t].closedPosts = 0

\* C20: a run_async invocation without a caller-supplied session creates
\* exactly one session however many attempts fail; an invocation given a
\* session, and a blocking call, create none.
C20_OneSessionPerInvocation ==
    \A t \in Tasks :
        /\ inv[t].created <= 1
        /\ (inv[t].mode = "call" \/ inv[t].given) => inv[t].created = 0
        /\ (NoSession(t) /\ inv[t].attempts > 0) => inv[t].created = 1

\* Every attempt of a session-less run_async failed, and the invocation
\* ended having created one session.
C20_Witness ==
    \E t \in Tasks :
        /\ IsRetry(t) /\ NoSession(t)
        /\ Failed(t, "exhausted")
        /\ inv[t].attempts > patience
        /\ inv[t].created = 1

====
